---- MODULE Spec2Model ----
(***************************************************************************)
(* Model of the trading engine of src/src/lib.rs: a market (options or     *)
(* futures) that stores pairs and their orders, and the engine's balance   *)
(* ledger with the fulfilment of an order held by the caller.              *)
(*                                                                         *)
(* u128 is scaled down to 0..U128_MAX; the checked_* operators and the     *)
(* unchecked `+=` of Order::fulfill keep the behaviour of the real width   *)
(* at that scale.                                                          *)
(***************************************************************************)
EXTENDS Integers, Sequences, FiniteSets, TLC

\* ------------------------------------------------------------------ bounds
\* The largest amount (stands for u128::MAX).
U128_MAX == 2
\* The most orders kept in one pair's sequence.
MaxOrders == 2
\* The most add_pair calls (the length of all_pairs).
MaxPairsAdded == 3

\* ------------------------------------------------------------------ inputs
Users == {"Alice", "Bob"}
Coins == {"EUR", "USD"}
PairKeys == {<<"EUR", "USD">>, <<"USD", "EUR">>}
Amounts == 0..U128_MAX
InitialPrices == {1, 2}
MarketKind == {"OPTIONS", "FUTURES"}

\* Option<u128>::None of the checked_* operations.
None == -1
\* String::new(), the buyer of an order nobody has fulfilled.
EmptyString == ""
\* The unit value () of a Result<(), String>.
Unit == <<>>
\* HashMap::new().
EmptyMap == [x \in {} |-> 0]

VARIABLES
    kind,        \* the MarketKind the engine was built with
    all_pairs,   \* market.all_pairs: Vec<Pair>
    pairs_map,   \* market.pairs_map: HashMap<[String; 2], Pair>
    balances,    \* engine.balances: HashMap<String, HashMap<String, u128>>
    order,       \* the Box<dyn Order> the caller holds and passes to fulfill_order
    ret,         \* the last call and what it returned
    panicked     \* the process was aborted by a panic

vars == <<kind, all_pairs, pairs_map, balances, order, ret, panicked>>

\* ------------------------------------------------------------- arithmetic
\* Mutant of checked_add: the sum wraps around instead of failing
checked_add_wrapping(a, b) == (a + b) % (U128_MAX + 1)

\* u128::checked_add
checked_add(a, b) == IF a + b > U128_MAX THEN None ELSE a + b

\* Mutant of checked_sub: the difference wraps around instead of failing
checked_sub_wrapping(a, b) == (a - b) % (U128_MAX + 1)

\* u128::checked_sub
checked_sub(a, b) == IF a < b THEN None ELSE a - b

\* Mutant of checked_mul: the product wraps around instead of failing
checked_mul_wrapping(a, b) == (a * b) % (U128_MAX + 1)

\* u128::checked_mul
checked_mul(a, b) == IF a * b > U128_MAX THEN None ELSE a * b

\* HashMap::insert / the slot an entry() call leaves behind
Put(m, k, v) == [x \in (DOMAIN m) \cup {k} |-> IF x = k THEN v ELSE m[x]]

\* ----------------------------------------------------------------- orders
IsOptionsOrder(o) == "premium" \in DOMAIN o

\* Mutant of get_price: an options order answers with its strike price
get_price_strike(o) == IF IsOptionsOrder(o) THEN o.strike_price ELSE o.price

\* Order::get_price: the premium of an options order, the price of a futures order
get_price(o) == IF IsOptionsOrder(o) THEN o.premium ELSE o.price

\* Order::get_coins
get_coins(o) == o.coins

\* Order::get_writer
get_writer(o) == o.writer

\* Order::fulfill: the buyer is assigned first, then `self.quantity += quantity`,
\* which on overflow panics (overflow checks on) or wraps (overflow checks off).
fulfill(o, buyer, quantity, overflow_checks) ==
    LET o1 == [o EXCEPT !.buyer = buyer]
        sum == o1.quantity + quantity
    IN  IF sum > U128_MAX
        THEN IF overflow_checks
             THEN [order |-> o1, panicked |-> TRUE]
             ELSE [order |-> [o1 EXCEPT !.quantity = sum % (U128_MAX + 1)],
                   panicked |-> FALSE]
        ELSE [order |-> [o1 EXCEPT !.quantity = sum], panicked |-> FALSE]

\* ----------------------------------------------------------------- ledger
\* Mutant of add_balance: the slot is written before the overflow is reported
add_balance_store_first(b, user, coin, amount) ==
    LET old == IF user \in DOMAIN b /\ coin \in DOMAIN b[user] THEN b[user][coin] ELSE 0
        ub == IF user \in DOMAIN b THEN b[user] ELSE EmptyMap
        sum == old + amount
    IN  IF sum > U128_MAX
        THEN [balances |-> Put(b, user, Put(ub, coin, U128_MAX)),
              res |-> "Balance overflow"]
        ELSE [balances |-> Put(b, user, Put(ub, coin, sum)), res |-> "Ok"]

\* TradingEngine::add_balance: both entry() calls insert before the checked
\* addition, so the slots stay when the addition fails.
add_balance(b, user, coin, amount) ==
    LET b1 == IF user \in DOMAIN b THEN b ELSE Put(b, user, EmptyMap)
        ub == IF coin \in DOMAIN b1[user] THEN b1[user] ELSE Put(b1[user], coin, 0)
        b2 == Put(b1, user, ub)
        sum == checked_add(ub[coin], amount)
    IN  IF sum = None
        THEN [balances |-> b2, res |-> "Balance overflow"]
        ELSE [balances |-> Put(b2, user, Put(ub, coin, sum)), res |-> "Ok"]

\* Mutant of subtract_balance: the slots are taken with entry().or_insert, as
\* add_balance does
subtract_balance_entry(b, user, coin, amount) ==
    LET b1 == IF user \in DOMAIN b THEN b ELSE Put(b, user, EmptyMap)
        ub == IF coin \in DOMAIN b1[user] THEN b1[user] ELSE Put(b1[user], coin, 0)
        b2 == Put(b1, user, ub)
        diff == checked_sub(ub[coin], amount)
    IN  IF diff = None
        THEN [balances |-> b2, res |-> "Insufficient balance"]
        ELSE [balances |-> Put(b2, user, Put(ub, coin, diff)), res |-> "Ok"]

\* TradingEngine::subtract_balance
subtract_balance(b, user, coin, amount) ==
    IF user \notin DOMAIN b
    THEN [balances |-> b, res |-> "User not found"]
    ELSE IF coin \notin DOMAIN b[user]
    THEN [balances |-> b, res |-> "Coin not found"]
    ELSE LET diff == checked_sub(b[user][coin], amount)
         IN  IF diff = None
             THEN [balances |-> b, res |-> "Insufficient balance"]
             ELSE [balances |-> Put(b, user, Put(b[user], coin, diff)), res |-> "Ok"]

\* Mutant of fulfill_order: the writer is credited before the taker is debited
fulfill_order_credit_first(b, o, user, quantity, overflow_checks) ==
    LET payment_amount == checked_mul(quantity, get_price(o))
        payment_coin == get_coins(o)[2]
    IN  IF payment_amount = None
        THEN [balances |-> b, order |-> o, panicked |-> FALSE,
              res |-> "Overflow in payment calculation"]
        ELSE LET a == add_balance(b, get_writer(o), payment_coin, payment_amount)
             IN  IF a.res # "Ok"
                 THEN [balances |-> a.balances, order |-> o, panicked |-> FALSE,
                       res |-> a.res]
                 ELSE LET s == subtract_balance(a.balances, user, payment_coin,
                                                payment_amount)
                      IN  IF s.res # "Ok"
                          THEN [balances |-> s.balances, order |-> o,
                                panicked |-> FALSE, res |-> s.res]
                          ELSE LET f == fulfill(o, user, quantity, overflow_checks)
                               IN  [balances |-> s.balances, order |-> f.order,
                                    panicked |-> f.panicked,
                                    res |-> IF f.panicked THEN "panic" ELSE "Ok"]

\* TradingEngine::fulfill_order: payment, debit, credit, then Order::fulfill;
\* each `?` returns with whatever the earlier steps have already done.
fulfill_order(b, o, user, quantity, overflow_checks) ==
    LET payment_amount == checked_mul(quantity, get_price(o))
        payment_coin == get_coins(o)[2]
    IN  IF payment_amount = None
        THEN [balances |-> b, order |-> o, panicked |-> FALSE,
              res |-> "Overflow in payment calculation"]
        ELSE LET s == subtract_balance(b, user, payment_coin, payment_amount)
             IN  IF s.res # "Ok"
                 THEN [balances |-> s.balances, order |-> o, panicked |-> FALSE,
                       res |-> s.res]
                 ELSE LET a == add_balance(s.balances, get_writer(o), payment_coin,
                                           payment_amount)
                      IN  IF a.res # "Ok"
                          THEN [balances |-> a.balances, order |-> o,
                                panicked |-> FALSE, res |-> a.res]
                          ELSE LET f == fulfill(o, user, quantity, overflow_checks)
                               IN  [balances |-> a.balances, order |-> f.order,
                                    panicked |-> f.panicked,
                                    res |-> IF f.panicked THEN "panic" ELSE "Ok"]

\* ----------------------------------------------------------------- market
\* downcast_ref::<OptionsOrderRequest>() / ::<FuturesOrderRequest>() succeeds
IsOptionsOrderRequest(r) == "premium" \in DOMAIN r
IsFuturesOrderRequest(r) == "price" \in DOMAIN r

\* The OptionsOrder literal create_order builds from a request
OptionsOrder(request) ==
    [coins |-> request.coins,
     strike_price |-> request.strike_price,
     premium |-> request.premium,
     writer |-> request.user,
     buyer |-> EmptyString,
     side |-> request.side,
     expiry |-> request.expiry,
     quantity |-> 0]

\* The FuturesOrder literal create_order builds from a request
FuturesOrder(request) ==
    [coins |-> request.coins,
     price |-> request.price,
     writer |-> request.user,
     buyer |-> EmptyString,
     side |-> request.side,
     expiry |-> request.expiry,
     quantity |-> 0]

\* Mutant of push_order: the order is put in front of the sequence
push_order_front(pair, o) == [pair EXCEPT !.orders = <<o>> \o pair.orders]

\* Pair::push_order
push_order(pair, o) == [pair EXCEPT !.orders = Append(pair.orders, o)]

\* The Pair literal add_pair builds
NewPair(coins, initial_price) ==
    [coins |-> coins, price |-> initial_price, orders |-> <<>>]

\* Mutant of FuturesMarket::create_order: a missing pair is registered on the
\* way (entry().or_insert_with) instead of being reported
FuturesMarket_create_order_registering(pm, request) ==
    IF IsFuturesOrderRequest(request)
    THEN LET pair == IF request.coins \in DOMAIN pm THEN pm[request.coins]
                     ELSE NewPair(request.coins, 0)
         IN  [pairs_map |-> Put(pm, request.coins,
                                push_order(pair, FuturesOrder(request))),
              res |-> "Ok"]
    ELSE [pairs_map |-> pm, res |-> "Invalid order request type"]

\* Mutant of add_pair: the pair is pushed on all_pairs and never inserted in
\* pairs_map
add_pair_list_only(ap, pm, coins, initial_price) ==
    [all_pairs |-> Append(ap, NewPair(coins, initial_price)),
     pairs_map |-> pm]

\* Mutant of add_pair: the map is rebuilt, every registered pair starting
\* again from an empty order sequence
add_pair_rebuilding(ap, pm, coins, initial_price) ==
    [all_pairs |-> Append(ap, NewPair(coins, initial_price)),
     pairs_map |-> [k \in DOMAIN pm \cup {coins} |->
                       IF k = coins THEN NewPair(coins, initial_price)
                       ELSE NewPair(k, pm[k].price)]]

\* Mutant of add_pair: a registered key keeps its entry (entry().or_insert)
add_pair_keep_existing(ap, pm, coins, initial_price) ==
    [all_pairs |-> Append(ap, NewPair(coins, initial_price)),
     pairs_map |-> IF coins \in DOMAIN pm THEN pm
                   ELSE Put(pm, coins, NewPair(coins, initial_price))]

\* OptionsMarket::add_pair and FuturesMarket::add_pair (the same code): the
\* pair is pushed on all_pairs and inserted in pairs_map, replacing an entry
\* of the same key.
add_pair(ap, pm, coins, initial_price) ==
    [all_pairs |-> Append(ap, NewPair(coins, initial_price)),
     pairs_map |-> Put(pm, coins, NewPair(coins, initial_price))]

\* OptionsMarket::get_pairs and FuturesMarket::get_pairs: the keys of pairs_map
\* (a Vec in no particular order, kept as a set)
get_pairs(pm) == DOMAIN pm

\* Mutant of OptionsMarket::create_order: the pair is looked up before the
\* request is downcast
OptionsMarket_create_order_pair_first(pm, request) ==
    IF request.coins \notin DOMAIN pm
    THEN [pairs_map |-> pm, res |-> "Pair not found"]
    ELSE IF IsOptionsOrderRequest(request)
    THEN [pairs_map |-> Put(pm, request.coins,
                            push_order(pm[request.coins], OptionsOrder(request))),
          res |-> "Ok"]
    ELSE [pairs_map |-> pm, res |-> "Invalid order request type"]

\* OptionsMarket::create_order
OptionsMarket_create_order(pm, request) ==
    IF IsOptionsOrderRequest(request)
    THEN IF request.coins \notin DOMAIN pm
         THEN [pairs_map |-> pm, res |-> "Pair not found"]
         ELSE [pairs_map |-> Put(pm, request.coins,
                                 push_order(pm[request.coins], OptionsOrder(request))),
               res |-> "Ok"]
    ELSE [pairs_map |-> pm, res |-> "Invalid order request type"]

\* Mutant of FuturesMarket::create_order: the order is pushed on every
\* registered pair
FuturesMarket_create_order_all_pairs(pm, request) ==
    IF IsFuturesOrderRequest(request)
    THEN IF request.coins \notin DOMAIN pm
         THEN [pairs_map |-> pm, res |-> "Pair not found"]
         ELSE [pairs_map |-> [c \in DOMAIN pm |->
                                 push_order(pm[c], FuturesOrder(request))],
               res |-> "Ok"]
    ELSE [pairs_map |-> pm, res |-> "Invalid order request type"]

\* FuturesMarket::create_order
FuturesMarket_create_order(pm, request) ==
    IF IsFuturesOrderRequest(request)
    THEN IF request.coins \notin DOMAIN pm
         THEN [pairs_map |-> pm, res |-> "Pair not found"]
         ELSE [pairs_map |-> Put(pm, request.coins,
                                 push_order(pm[request.coins], FuturesOrder(request))),
               res |-> "Ok"]
    ELSE [pairs_map |-> pm, res |-> "Invalid order request type"]

\* Market::create_order through the Box<dyn Market> of the engine
create_order(k, pm, request) ==
    IF k = "OPTIONS"
    THEN OptionsMarket_create_order(pm, request)
    ELSE FuturesMarket_create_order(pm, request)

\* OptionsMarket::get_orders and FuturesMarket::get_orders: `None`, whatever
\* the market holds
Market_get_orders(pm, coins) == None

\* TradingEngine::get_orders: market.get_orders(coins).ok_or("Pair not found")
get_orders(pm, coins) ==
    LET found == Market_get_orders(pm, coins)
    IN  IF found = None
        THEN [res |-> "Pair not found", val |-> Unit]
        ELSE [res |-> "Ok", val |-> found]

\* ----------------------------------------------------------------- inputs
\* The requests submitted: two of each kind for every pair key, differing in
\* every term (submitter, side, strike, price term, expiry)
OptionsOrderRequests ==
    {[user |-> t.user, coins |-> c, side |-> t.side,
      strike_price |-> t.strike_price, premium |-> t.premium, expiry |-> t.expiry] :
        c \in PairKeys,
        t \in {[user |-> "Alice", side |-> "CALL", strike_price |-> 2, premium |-> 1,
                expiry |-> 1],
               [user |-> "Bob", side |-> "PUT", strike_price |-> 1, premium |-> 2,
                expiry |-> 2]}}
FuturesOrderRequests ==
    {[user |-> t.user, coins |-> c, side |-> t.side, price |-> t.price,
      expiry |-> t.expiry] :
        c \in PairKeys,
        t \in {[user |-> "Alice", side |-> "ASK", price |-> 1, expiry |-> 1],
               [user |-> "Bob", side |-> "BID", price |-> 2, expiry |-> 2]}}
OrderRequests == OptionsOrderRequests \cup FuturesOrderRequests

\* The orders a caller may hold, as create_order builds them, written by Alice
\* on the pair (EUR, USD): an options order at a premium of one unit (not its
\* strike), a free futures order and a futures order at the largest price
HeldOrders ==
    {OptionsOrder([user |-> "Alice", coins |-> <<"EUR", "USD">>, side |-> "CALL",
                   strike_price |-> 2, premium |-> 1, expiry |-> 1]),
     FuturesOrder([user |-> "Alice", coins |-> <<"EUR", "USD">>, side |-> "ASK",
                   price |-> 0, expiry |-> 1]),
     FuturesOrder([user |-> "Alice", coins |-> <<"EUR", "USD">>, side |-> "BID",
                   price |-> U128_MAX, expiry |-> 2])}

\* ------------------------------------------------------------------ state
\* TradingEngine::new(kind): an empty market of that kind and an empty ledger
Init ==
    /\ kind \in MarketKind
    /\ all_pairs = <<>>
    /\ pairs_map = EmptyMap
    /\ balances = EmptyMap
    /\ order = CHOOSE o \in HeldOrders : IsOptionsOrder(o)
    /\ ret = [op |-> "new", res |-> "Ok", val |-> Unit]
    /\ panicked = FALSE

\* ---------------------------------------------------------------- actions
\* engine.add_pair(coins, initial_price): always Ok(())
AddPair(coins, initial_price) ==
    /\ ~panicked
    /\ Len(all_pairs) < MaxPairsAdded
    /\ LET r == add_pair(all_pairs, pairs_map, coins, initial_price)
       IN  /\ all_pairs' = r.all_pairs
           /\ pairs_map' = r.pairs_map
    /\ ret' = [op |-> "add_pair", res |-> "Ok", val |-> Unit]
    /\ UNCHANGED <<kind, balances, order, panicked>>

\* engine.market.get_pairs()
GetPairs ==
    /\ ~panicked
    /\ ret' = [op |-> "get_pairs", res |-> "Ok", val |-> get_pairs(pairs_map)]
    /\ UNCHANGED <<kind, all_pairs, pairs_map, balances, order, panicked>>

\* engine.market.create_order(request)
CreateOrder(request) ==
    /\ ~panicked
    /\ LET r == create_order(kind, pairs_map, request)
       IN  /\ r.res = "Ok" => Len(r.pairs_map[request.coins].orders) <= MaxOrders
           /\ pairs_map' = r.pairs_map
           /\ ret' = [op |-> "create_order", res |-> r.res, val |-> Unit]
    /\ UNCHANGED <<kind, all_pairs, balances, order, panicked>>

\* engine.get_orders(coins)
GetOrders(coins) ==
    /\ ~panicked
    /\ LET r == get_orders(pairs_map, coins)
       IN  ret' = [op |-> "get_orders", res |-> r.res, val |-> r.val]
    /\ UNCHANGED <<kind, all_pairs, pairs_map, balances, order, panicked>>

\* The caller takes a fresh order in hand (the struct built as in create_order)
HoldOrder(o) ==
    /\ ~panicked
    /\ order' = o
    /\ ret' = [op |-> "hold_order", res |-> "Ok", val |-> Unit]
    /\ UNCHANGED <<kind, all_pairs, pairs_map, balances, panicked>>

\* engine.add_balance(user, coin, amount)
AddBalance(user, coin, amount) ==
    /\ ~panicked
    /\ LET r == add_balance(balances, user, coin, amount)
       IN  /\ balances' = r.balances
           /\ ret' = [op |-> "add_balance", res |-> r.res, val |-> Unit]
    /\ UNCHANGED <<kind, all_pairs, pairs_map, order, panicked>>

\* engine.subtract_balance(user, coin, amount)
SubtractBalance(user, coin, amount) ==
    /\ ~panicked
    /\ LET r == subtract_balance(balances, user, coin, amount)
       IN  /\ balances' = r.balances
           /\ ret' = [op |-> "subtract_balance", res |-> r.res, val |-> Unit]
    /\ UNCHANGED <<kind, all_pairs, pairs_map, order, panicked>>

\* engine.fulfill_order(&mut order, user, quantity), built with overflow checks
\* on or off
FulfillOrder(user, quantity, overflow_checks) ==
    /\ ~panicked
    /\ LET r == fulfill_order(balances, order, user, quantity, overflow_checks)
       IN  /\ balances' = r.balances
           /\ order' = r.order
           /\ panicked' = r.panicked
           /\ ret' = [op |-> "fulfill_order", res |-> r.res, val |-> Unit]
    /\ UNCHANGED <<kind, all_pairs, pairs_map>>

\* --------------------------------------------------------- specifications
\* The ledger and the fulfilment of the held order
NextLedger ==
    \/ \E o \in HeldOrders : HoldOrder(o)
    \/ \E user \in Users, coin \in Coins, amount \in Amounts :
           AddBalance(user, coin, amount)
    \/ \E user \in Users, coin \in Coins, amount \in Amounts :
           SubtractBalance(user, coin, amount)
    \/ \E user \in Users, quantity \in Amounts, overflow_checks \in BOOLEAN :
           FulfillOrder(user, quantity, overflow_checks)

\* The ledger operations never read the market: they are explored on an
\* engine of one kind, with held orders of both variants
InitLedger == Init /\ kind = "OPTIONS"

SpecLedger == InitLedger /\ [][NextLedger]_vars

\* The market: pairs and their orders
NextMarket ==
    \/ \E coins \in PairKeys, initial_price \in InitialPrices :
           AddPair(coins, initial_price)
    \/ GetPairs
    \/ \E request \in OrderRequests : CreateOrder(request)
    \/ \E coins \in PairKeys : GetOrders(coins)

SpecMarket == Init /\ [][NextMarket]_vars

\* Every operation of the engine and its market together: pairs registered at
\* price 1, Alice's requests for the pair (EUR, USD), one unit of USD added,
\* subtracted or fulfilled at a time, on the order held from the start (the
\* copy of the order that Alice's options request creates)
Next ==
    \/ \E coins \in PairKeys : AddPair(coins, 1)
    \/ GetPairs
    \/ \E request \in OrderRequests :
           /\ request.coins = <<"EUR", "USD">>
           /\ request.user = "Alice"
           /\ CreateOrder(request)
    \/ GetOrders(<<"EUR", "USD">>)
    \/ \E user \in Users : AddBalance(user, "USD", 1)
    \/ \E user \in Users : SubtractBalance(user, "USD", 1)
    \/ \E user \in Users, overflow_checks \in BOOLEAN :
           FulfillOrder(user, 1, overflow_checks)

Spec == Init /\ [][Next]_vars

\* ------------------------------------------------------------------ claims
\* The balance of a user in a coin, zero when there is no entry
Bal(b, user, coin) ==
    IF user \in DOMAIN b /\ coin \in DOMAIN b[user] THEN b[user][coin] ELSE 0

\* The user has an entry for the coin
HasEntry(b, user, coin) == user \in DOMAIN b /\ coin \in DOMAIN b[user]

\* The payment of a fulfilment, unbounded: quantity times the order's price term
Payment(o, quantity) ==
    quantity * (IF "premium" \in DOMAIN o THEN o.premium ELSE o.price)

\* The quote coin of an order: the second element of its pair
QuoteCoin(o) == o.coins[2]

\* The debit of a fulfilment cannot be made: the payment is representable and
\* the taker has no entry, no entry for the quote coin, or too small a balance
DebitFails(b, o, user, quantity) ==
    /\ Payment(o, quantity) <= U128_MAX
    /\ \/ ~HasEntry(b, user, QuoteCoin(o))
       \/ Payment(o, quantity) > b[user][QuoteCoin(o)]

DebitErrors == {"User not found", "Coin not found", "Insufficient balance"}

\* C1: a fulfill_order whose debit step fails returns the debit's error and
\* changes nothing: the ledger (balances and entries) and the order (its
\* counter-party and filled quantity) are as before the call.
C1_DebitFailureChangesNothing ==
    [][\A user \in Users, quantity \in Amounts, overflow_checks \in BOOLEAN :
          (ret'.op = "fulfill_order"
             /\ DebitFails(balances, order, user, quantity)
             /\ FulfillOrder(user, quantity, overflow_checks))
          => /\ ret'.res \in DebitErrors
             /\ balances' = balances
             /\ order' = order]_vars

\* C1 witness: a fulfilment has just failed with insufficient balance while the
\* taker holds a positive balance in the quote coin.
C1_Witness ==
    /\ ret.op = "fulfill_order"
    /\ ret.res = "Insufficient balance"
    /\ \E user \in Users : Bal(balances, user, QuoteCoin(order)) > 0

\* C2 (as claimed): a fulfill_order that fails because the credit to the writer
\* overflows leaves the ledger and the order as they were before the call.
C2_CreditOverflowChangesNothing ==
    [][\A user \in Users, quantity \in Amounts, overflow_checks \in BOOLEAN :
          (ret'.op = "fulfill_order"
             /\ ret'.res = "Balance overflow"
             /\ FulfillOrder(user, quantity, overflow_checks))
          => /\ Bal(balances', user, QuoteCoin(order))
                  = Bal(balances, user, QuoteCoin(order))
             /\ Bal(balances', order.writer, QuoteCoin(order))
                  = Bal(balances, order.writer, QuoteCoin(order))
             /\ order' = order]_vars

\* C3 (as claimed): after a successful fulfill_order, for every taker and
\* writer, the writer's quote-coin balance is its old balance plus the payment,
\* the taker's is its old balance minus the payment, and their sum is unchanged.
C3_TransferForEveryTaker ==
    [][\A user \in Users, quantity \in Amounts, overflow_checks \in BOOLEAN :
          (ret'.op = "fulfill_order"
             /\ ret'.res = "Ok" /\ FulfillOrder(user, quantity, overflow_checks))
          => LET c == QuoteCoin(order)
                 w == order.writer
                 pay == Payment(order, quantity)
             IN  /\ Bal(balances', w, c) = Bal(balances, w, c) + pay
                 /\ Bal(balances', user, c) = Bal(balances, user, c) - pay
                 /\ Bal(balances', w, c) + Bal(balances', user, c)
                      = Bal(balances, w, c) + Bal(balances, user, c)]_vars

\* C3 (amended): after a successful fulfill_order by a taker other than the
\* order's writer, the writer's quote-coin balance is its old balance plus the
\* payment and the taker's is its old balance minus the payment; when the taker
\* is the writer, that balance is unchanged; in both cases the sum of the two
\* parties' balances is unchanged.
C3_TransferBetweenDistinctParties ==
    [][\A user \in Users, quantity \in Amounts, overflow_checks \in BOOLEAN :
          (ret'.op = "fulfill_order"
             /\ ret'.res = "Ok" /\ FulfillOrder(user, quantity, overflow_checks))
          => LET c == QuoteCoin(order)
                 w == order.writer
                 pay == Payment(order, quantity)
             IN  /\ user # w =>
                       /\ Bal(balances', w, c) = Bal(balances, w, c) + pay
                       /\ Bal(balances', user, c) = Bal(balances, user, c) - pay
                 /\ user = w => Bal(balances', w, c) = Bal(balances, w, c)
                 /\ Bal(balances', w, c) + Bal(balances', user, c)
                      = Bal(balances, w, c) + Bal(balances, user, c)]_vars

\* C3 witness: Bob has just fulfilled Alice's order for a positive payment, and
\* Alice holds the payment in the quote coin.
C3_Witness ==
    /\ ret.op = "fulfill_order"
    /\ ret.res = "Ok"
    /\ order.buyer # order.writer
    /\ order.quantity > 0
    /\ Payment(order, order.quantity) > 0
    /\ Bal(balances, order.writer, QuoteCoin(order)) > 0

\* C4: every balance of the ledger is within 0..U128_MAX, and a
\* subtract_balance of more than the current balance fails with insufficient
\* balance and leaves every balance unchanged.
C4_NoNegativeBalances ==
    /\ [](\A user \in DOMAIN balances : \A coin \in DOMAIN balances[user] :
             balances[user][coin] \in 0..U128_MAX)
    /\ [][\A user \in Users, coin \in Coins, amount \in Amounts :
             (ret'.op = "subtract_balance"
                /\ HasEntry(balances, user, coin)
                /\ amount > balances[user][coin]
                /\ SubtractBalance(user, coin, amount))
             => /\ ret'.res = "Insufficient balance"
                /\ balances' = balances]_vars

\* C4 witness: a subtraction has just failed with insufficient balance on a
\* ledger that holds a positive balance.
C4_Witness ==
    /\ ret.op = "subtract_balance"
    /\ ret.res = "Insufficient balance"
    /\ \E user \in Users, coin \in Coins : Bal(balances, user, coin) > 0

\* C5: an add_balance whose sum exceeds the largest amount fails with the
\* overflow error and leaves the ledger unmodified: the same balances and the
\* same user and coin entries.
C5_AddOverflowChangesNothing ==
    [][\A user \in Users, coin \in Coins, amount \in Amounts :
          (ret'.op = "add_balance"
             /\ Bal(balances, user, coin) + amount > U128_MAX
             /\ AddBalance(user, coin, amount))
          => /\ ret'.res = "Balance overflow"
             /\ balances' = balances]_vars

\* C5 witness: an add_balance has just failed with the overflow error.
C5_Witness ==
    /\ ret.op = "add_balance"
    /\ ret.res = "Balance overflow"
    /\ \E user \in Users, coin \in Coins : Bal(balances, user, coin) > 0

\* C6: a fulfill_order whose quantity times price exceeds the largest amount
\* fails with the payment overflow error before any ledger operation: the
\* ledger and the order are unchanged.
C6_PaymentOverflowChangesNothing ==
    [][\A user \in Users, quantity \in Amounts, overflow_checks \in BOOLEAN :
          (ret'.op = "fulfill_order"
             /\ Payment(order, quantity) > U128_MAX
             /\ FulfillOrder(user, quantity, overflow_checks))
          => /\ ret'.res = "Overflow in payment calculation"
             /\ balances' = balances
             /\ order' = order]_vars

\* C6 witness: a fulfilment has just failed with the payment overflow error
\* while the writer and another user hold balances in the quote coin.
C6_Witness ==
    /\ ret.op = "fulfill_order"
    /\ ret.res = "Overflow in payment calculation"
    /\ \A user \in Users : HasEntry(balances, user, QuoteCoin(order))

\* The request is of the kind of the engine's market
OwnKind(request) ==
    \/ kind = "OPTIONS" /\ request \in OptionsOrderRequests
    \/ kind = "FUTURES" /\ request \in FuturesOrderRequests

\* C7 (as claimed): get_orders of a registered pair returns that pair's
\* current order sequence, and it reports pair not found exactly when the key
\* is not registered.
C7_GetOrdersReadsThePairMap ==
    [][\A coins \in PairKeys :
          (ret'.op = "get_orders" /\ GetOrders(coins))
          => IF coins \in DOMAIN pairs_map
             THEN ret'.res = "Ok" /\ ret'.val = pairs_map[coins].orders
             ELSE ret'.res = "Pair not found"]_vars

\* C8: a create_order with a request of the other kind fails with the invalid
\* order request type error, whether or not its pair is registered, and
\* changes neither the registered pairs nor any pair's order sequence.
C8_KindMismatchCreatesNothing ==
    [][\A request \in OrderRequests :
          (ret'.op = "create_order"
             /\ ~OwnKind(request)
             /\ CreateOrder(request))
          => /\ ret'.res = "Invalid order request type"
             /\ pairs_map' = pairs_map
             /\ all_pairs' = all_pairs]_vars

\* C8 witness: a request of the other kind for a registered pair has just been
\* refused.
C8_Witness ==
    /\ ret.op = "create_order"
    /\ ret.res = "Invalid order request type"
    /\ DOMAIN pairs_map # {}
    /\ \E coins \in DOMAIN pairs_map : pairs_map[coins].orders # <<>>

\* C9: a create_order with a request of the market's kind for a pair that is
\* not registered fails with pair not found, registers no pair and changes no
\* pair's order sequence.
C9_UnknownPairCreatesNothing ==
    [][\A request \in OrderRequests :
          (ret'.op = "create_order"
             /\ OwnKind(request)
             /\ request.coins \notin DOMAIN pairs_map
             /\ CreateOrder(request))
          => /\ ret'.res = "Pair not found"
             /\ pairs_map' = pairs_map
             /\ all_pairs' = all_pairs]_vars

\* C9 witness: a request for an unregistered pair has just been refused while
\* another pair is registered and holds an order.
C9_Witness ==
    /\ ret.op = "create_order"
    /\ ret.res = "Pair not found"
    /\ \E coins \in DOMAIN pairs_map : pairs_map[coins].orders # <<>>
    /\ DOMAIN pairs_map # PairKeys

\* C10: a successful create_order appends exactly one order to the requested
\* pair's sequence: its writer is the submitter, its counter-party is empty,
\* its filled quantity is 0, its price term, side, expiry and pair are the
\* request's; the orders already in the sequence keep their places and values,
\* and no other pair changes.
C10_CreateOrderAppendsTheRequest ==
    [][\A request \in OrderRequests :
          (ret'.op = "create_order" /\ ret'.res = "Ok" /\ CreateOrder(request))
          => LET old == pairs_map[request.coins].orders
                 new == pairs_map'[request.coins].orders
                 o == new[Len(new)]
             IN  /\ Len(new) = Len(old) + 1
                 /\ SubSeq(new, 1, Len(old)) = old
                 /\ o.writer = request.user
                 /\ o.buyer = ""
                 /\ o.quantity = 0
                 /\ o.side = request.side
                 /\ o.expiry = request.expiry
                 /\ o.coins = request.coins
                 /\ IF request \in OptionsOrderRequests
                    THEN /\ DOMAIN o = {"coins", "strike_price", "premium", "writer",
                                        "buyer", "side", "expiry", "quantity"}
                         /\ o.premium = request.premium
                         /\ o.strike_price = request.strike_price
                    ELSE /\ DOMAIN o = {"coins", "price", "writer", "buyer", "side",
                                        "expiry", "quantity"}
                         /\ o.price = request.price
                 /\ DOMAIN pairs_map' = DOMAIN pairs_map
                 /\ \A coins \in DOMAIN pairs_map :
                        /\ pairs_map'[coins].coins = pairs_map[coins].coins
                        /\ pairs_map'[coins].price = pairs_map[coins].price
                        /\ coins # request.coins => pairs_map'[coins] = pairs_map[coins]
                 /\ all_pairs' = all_pairs]_vars

\* C10 witness: an order has just been created behind a different one in the
\* same pair.
C10_Witness ==
    /\ ret.op = "create_order"
    /\ ret.res = "Ok"
    /\ \E coins \in DOMAIN pairs_map :
          /\ Len(pairs_map[coins].orders) = 2
          /\ pairs_map[coins].orders[1] # pairs_map[coins].orders[2]

\* The orders of a sequence are still there, each at its place
KeepsOrders(old, new) ==
    /\ Len(new) >= Len(old)
    /\ SubSeq(new, 1, Len(old)) = old

\* C11: every order stored in a pair's sequence carries that pair's key, and
\* a create_order against one pair leaves the sequence of every other pair
\* unchanged.
C11_PairIsolation ==
    /\ [](\A coins \in DOMAIN pairs_map :
             \A i \in 1..Len(pairs_map[coins].orders) :
                 pairs_map[coins].orders[i].coins = coins)
    /\ [][\A request \in OrderRequests :
             (ret'.op = "create_order" /\ CreateOrder(request))
             => \A coins \in DOMAIN pairs_map :
                    coins # request.coins
                    => /\ coins \in DOMAIN pairs_map'
                       /\ pairs_map'[coins].orders = pairs_map[coins].orders]_vars

\* C11 witness: an order has just been created while both pairs are
\* registered and their sequences differ.
C11_Witness ==
    /\ ret.op = "create_order"
    /\ ret.res = "Ok"
    /\ DOMAIN pairs_map = PairKeys
    /\ \E a, b \in PairKeys :
          /\ Len(pairs_map[a].orders) = 2
          /\ Len(pairs_map[b].orders) = 1

\* C12 (as claimed): across every operation, no order is ever removed from a
\* registered pair's sequence: the pair stays registered, its sequence does
\* not get shorter and every order stays at its place.
C12_OrdersAreNeverRemoved ==
    [][\A coins \in DOMAIN pairs_map :
          /\ coins \in DOMAIN pairs_map'
          /\ KeepsOrders(pairs_map[coins].orders, pairs_map'[coins].orders)]_vars

\* C12 (amended): across create_order, add_balance, subtract_balance,
\* fulfill_order and an add_pair of another key, no order is removed from a
\* registered pair's sequence (it does not get shorter and every order stays
\* at its place); an add_pair of the registered key itself replaces the
\* sequence by the empty one.
C12_OrdersRemovedOnlyByAddPair ==
    [][\A coins \in DOMAIN pairs_map :
          /\ coins \in DOMAIN pairs_map'
          /\ IF ret'.op = "add_pair" /\ \E p \in InitialPrices : AddPair(coins, p)
             THEN pairs_map'[coins].orders = <<>>
             ELSE KeepsOrders(pairs_map[coins].orders, pairs_map'[coins].orders)]_vars

\* C12 witness: the pair (EUR, USD) holds two orders after orders were created,
\* a balance was added and the other pair was registered.
C12_Witness ==
    /\ DOMAIN pairs_map = PairKeys
    /\ Len(pairs_map[<<"EUR", "USD">>].orders) = 2
    /\ all_pairs[Len(all_pairs)].coins = <<"USD", "EUR">>
    /\ Bal(balances, "Bob", "USD") > 0

\* C13: add_pair always succeeds, and afterwards the pair map holds for the
\* key one entry with the given reference price and an empty order sequence,
\* also when the key was registered before; the entries of the other keys are
\* unchanged.
C13_AddPairLastWriteWins ==
    [][\A coins \in PairKeys, initial_price \in InitialPrices :
          (ret'.op = "add_pair" /\ AddPair(coins, initial_price))
          => /\ ret'.res = "Ok"
             /\ DOMAIN pairs_map' = DOMAIN pairs_map \cup {coins}
             /\ pairs_map'[coins].coins = coins
             /\ pairs_map'[coins].price = initial_price
             /\ pairs_map'[coins].orders = <<>>
             /\ \A other \in DOMAIN pairs_map :
                    other # coins => pairs_map'[other] = pairs_map[other]]_vars

\* C13 witness: a key has just been registered a second time, at another
\* price, while the other pair holds an order.
C13_Witness ==
    /\ ret.op = "add_pair"
    /\ \E i, j \in 1..Len(all_pairs) :
          /\ i < j
          /\ j = Len(all_pairs)
          /\ all_pairs[i].coins = all_pairs[j].coins
          /\ all_pairs[i].price # all_pairs[j].price
    /\ \E coins \in DOMAIN pairs_map : pairs_map[coins].orders # <<>>

\* C14 (as claimed): across fulfill_order calls with any quantities, the filled
\* quantity of the order after a call is at least its value before the call.
C14_FilledQuantityNeverDecreases ==
    [][ret'.op = "fulfill_order" => order'.quantity >= order.quantity]_vars

\* C15 (as claimed): every call ends by returning success or a reported
\* error; none aborts the process with a panic.
C15_NoCallPanics == panicked = FALSE

\* The held order is a copy of an order of its pair's sequence in the market
HeldFromMarket(pm, o) ==
    /\ o.coins \in DOMAIN pm
    /\ \E i \in 1..Len(pm[o.coins].orders) : pm[o.coins].orders[i] = o

\* C16 (as claimed): after a successful fulfill_order on an order taken from a
\* pair's sequence, the order stored in that sequence has the fulfilling user
\* as counter-party and a filled quantity increased by the fulfilled quantity.
C16_StoredOrderIsUpdated ==
    [][\A user \in Users, quantity \in Amounts, overflow_checks \in BOOLEAN :
          (ret'.op = "fulfill_order"
             /\ ret'.res = "Ok"
             /\ HeldFromMarket(pairs_map, order)
             /\ FulfillOrder(user, quantity, overflow_checks))
          => \E i \in 1..Len(pairs_map[order.coins].orders) :
                /\ pairs_map[order.coins].orders[i] = order
                /\ Len(pairs_map'[order.coins].orders)
                     = Len(pairs_map[order.coins].orders)
                /\ pairs_map'[order.coins].orders[i].buyer = user
                /\ pairs_map'[order.coins].orders[i].quantity
                     = order.quantity + quantity]_vars

\* C17: subtract_balance fails with user not found when the user has no entry,
\* else with coin not found when the user has no entry for the coin, else
\* with insufficient balance when the amount exceeds the balance; a failed
\* call leaves the entries and the balances unchanged, and a successful one
\* decrements that one balance by the amount and nothing else.
C17_SubtractBalanceFailuresInOrder ==
    [][\A user \in Users, coin \in Coins, amount \in Amounts :
          (ret'.op = "subtract_balance" /\ SubtractBalance(user, coin, amount))
          => IF user \notin DOMAIN balances
             THEN ret'.res = "User not found" /\ balances' = balances
             ELSE IF coin \notin DOMAIN balances[user]
             THEN ret'.res = "Coin not found" /\ balances' = balances
             ELSE IF amount > balances[user][coin]
             THEN ret'.res = "Insufficient balance" /\ balances' = balances
             ELSE /\ ret'.res = "Ok"
                  /\ DOMAIN balances' = DOMAIN balances
                  /\ \A u \in DOMAIN balances :
                         /\ DOMAIN balances'[u] = DOMAIN balances[u]
                         /\ \A c \in DOMAIN balances[u] :
                                balances'[u][c] =
                                    IF u = user /\ c = coin
                                    THEN balances[u][c] - amount
                                    ELSE balances[u][c]]_vars

\* C17 witness: a subtraction has just failed with coin not found, for a user
\* whose only entry holds a positive balance in the other coin.
C17_Witness ==
    /\ ret.op = "subtract_balance"
    /\ ret.res = "Coin not found"
    /\ \E user \in DOMAIN balances :
          /\ DOMAIN balances[user] # Coins
          /\ \E coin \in DOMAIN balances[user] : balances[user][coin] > 0

\* C18: a successful add_balance sets the balance of the user in the coin to
\* its previous value (zero without an entry) plus the amount and leaves the
\* balance and the entry of every other user and coin as they were.
C18_AddBalanceAddsToOneBalance ==
    [][\A user \in Users, coin \in Coins, amount \in Amounts :
          (ret'.op = "add_balance"
             /\ ret'.res = "Ok"
             /\ AddBalance(user, coin, amount))
          => /\ HasEntry(balances', user, coin)
             /\ balances'[user][coin] = Bal(balances, user, coin) + amount
             /\ \A u \in Users, c \in Coins :
                    (u # user \/ c # coin)
                    => /\ HasEntry(balances', u, c) = HasEntry(balances, u, c)
                       /\ Bal(balances', u, c) = Bal(balances, u, c)]_vars

\* C18 witness: an add_balance has just succeeded on a ledger where a balance
\* is the largest amount, reached by more than one add, and another user holds
\* a balance too.
C18_Witness ==
    /\ ret.op = "add_balance"
    /\ ret.res = "Ok"
    /\ \E user \in Users, coin \in Coins :
          /\ Bal(balances, user, coin) = U128_MAX
          /\ \E u \in Users \ {user} : Bal(balances, u, coin) = 1

\* The keys passed to add_pair so far (all_pairs keeps every pair added)
KeysAdded == {all_pairs[i].coins : i \in 1..Len(all_pairs)}

\* C19: get_pairs returns exactly the keys passed to add_pair so far, as many
\* as there are distinct keys, and no operation other than add_pair changes
\* what it returns.
C19_GetPairsReturnsTheKeysAdded ==
    /\ [](ret.op = "get_pairs"
            => /\ ret.val = KeysAdded
               /\ Cardinality(ret.val) = Cardinality(KeysAdded))
    /\ [][ret'.op # "add_pair" => get_pairs(pairs_map') = get_pairs(pairs_map)]_vars

\* C19 witness: get_pairs has just returned both keys after three add_pair
\* calls, with an order created and a balance added in between.
C19_Witness ==
    /\ ret.op = "get_pairs"
    /\ ret.val = PairKeys
    /\ Len(all_pairs) = 3
    /\ pairs_map[<<"EUR", "USD">>].orders # <<>>
    /\ Bal(balances, "Bob", "USD") > 0

\* C20 (as claimed): a successful fulfill_order sets the order's counter-party
\* to the user, adds the quantity to its filled quantity and leaves its writer,
\* pair and price term unchanged; no other operation changes the order.
C20_FulfillSetsBuyerAndAddsQuantity ==
    [][/\ \A user \in Users, quantity \in Amounts, overflow_checks \in BOOLEAN :
             (ret'.op = "fulfill_order"
                /\ ret'.res = "Ok"
                /\ FulfillOrder(user, quantity, overflow_checks))
             => /\ order'.buyer = user
                /\ order'.quantity = order.quantity + quantity
                /\ order'.writer = order.writer
                /\ order'.coins = order.coins
                /\ Payment(order', 1) = Payment(order, 1)
       /\ ret'.op \notin {"fulfill_order", "hold_order"} => order' = order
       /\ ret'.op # "hold_order" => order'.writer = order.writer]_vars

====
